---- MODULE Spec2Model ----
(***************************************************************************)
(* Fraud risk-scoring engine of customer_risk_platform/fraud_analyzers.py. *)
(*                                                                         *)
(* Units.  Python floats are modelled by exact integers on a fixed grid:   *)
(*   dimension scores and contributions   in tenths      (10   = 1.0)      *)
(*   weights, confidences, ratios 0..1    in hundredths  (100  = 1.0)      *)
(*   composite score, thresholds          in thousandths (1000 = 1.0)      *)
(*   classification confidence            in 1e-5        (100000 = 1.0)    *)
(*   money                                in whole currency units          *)
(*   instants                             in hours since an epoch          *)
(* A Python dict is a function whose DOMAIN is the set of keys present.    *)
(***************************************************************************)
EXTENDS Integers, Sequences, FiniteSets, TLC

VARIABLES
    now,                    \* wall clock read by datetime.utcnow(), in hours
    hashSeed,               \* the process's string-hash seed (PYTHONHASHSEED)
    npState,                \* numpy's global generator state (np.random)
    pc,                     \* position of the current call
    entry,                  \* which entry point is running: "engine" or "task"
    customer_profiles,      \* the caller's list of profile dicts (the objects themselves)
    called_with,            \* the value of that list when the call was made
    idx,                    \* position of the running loop in the batch
    risk_analyzed_profiles, \* local of enrich_fraud_indicators
    fraud_alerts,           \* local of enrich_fraud_indicators
    fraud_metrics,          \* analysis_metrics once computed
    exc,                    \* the exception that ended the call, "" when none
    staging,                \* rows of staging.fraud_scores
    runs,                   \* completed or aborted calls so far
    prev,                   \* what the previous call returned (enriched profiles)
    ticks,                  \* how often the clock advanced
    hIn, hOut,              \* argument and result of a function applied on its own
    workers,                \* threads each running the pipeline of one profile
    extraction              \* the task extract_sales_data: position, locals, result

vars == <<now, hashSeed, npState, pc, entry, customer_profiles, called_with, idx,
          risk_analyzed_profiles, fraud_alerts, fraud_metrics, exc, staging,
          runs, prev, ticks, hIn, hOut, workers, extraction>>

(***************************************************************************)
(* Bounds of the model.                                                    *)
(***************************************************************************)
MaxBatch == 2
MaxTicks == 2
ClockStep == 12
NumHashSeeds == 6
NumWorkers == 2

(***************************************************************************)
(* Python dicts and lists.                                                 *)
(***************************************************************************)
Get(d, k, default) == IF k \in DOMAIN d THEN d[k] ELSE default

Put(d, k, v) == [x \in (DOMAIN d) \cup {k} |-> IF x = k THEN v ELSE d[x]]

Merge(a, b) == [x \in (DOMAIN a) \cup (DOMAIN b) |-> IF x \in DOMAIN b THEN b[x] ELSE a[x]]

Min(a, b) == IF a <= b THEN a ELSE b

RECURSIVE SumSeq(_)
SumSeq(s) == IF s = <<>> THEN 0 ELSE Head(s) + SumSeq(Tail(s))

\* list.sort() on instants: insertion into an ascending list
RECURSIVE InsertSorted(_, _)
InsertSorted(x, s) ==
    IF s = <<>> THEN <<x>>
    ELSE IF x <= Head(s) THEN <<x>> \o s
    ELSE <<Head(s)>> \o InsertSorted(x, Tail(s))

\* the list left in the order of generation
Unsorted(s) == s

RECURSIVE SortAsc(_)
SortAsc(s) == IF s = <<>> THEN <<>> ELSE InsertSorted(Head(s), SortAsc(Tail(s)))

\* `sub in s` on strings, strings being sequences of characters
Contains(s, sub) ==
    \E k \in 0..(Len(s) - Len(sub)) : SubSeq(s, k + 1, k + Len(sub)) = sub

(***************************************************************************)
(* Strings: str(), str.lower(), the process's string hash.                 *)
(***************************************************************************)
Digits == <<"0", "1", "2", "3", "4", "5", "6", "7", "8", "9">>

UpperLetters == <<"A", "B", "C", "D", "E", "F", "G", "H", "I", "J", "K", "L", "M",
                  "N", "O", "P", "Q", "R", "S", "T", "U", "V", "W", "X", "Y", "Z">>

LowerLetters == <<"a", "b", "c", "d", "e", "f", "g", "h", "i", "j", "k", "l", "m",
                  "n", "o", "p", "q", "r", "s", "t", "u", "v", "w", "x", "y", "z">>

\* str(n) of a non-negative integer: its decimal digits
RECURSIVE Str(_)
Str(n) == IF n < 10 THEN <<Digits[n + 1]>> ELSE Str(n \div 10) \o <<Digits[(n % 10) + 1]>>

LowerChar(c) ==
    IF \E k \in 1..Len(UpperLetters) : UpperLetters[k] = c
    THEN LowerLetters[CHOOSE k \in 1..Len(UpperLetters) : UpperLetters[k] = c]
    ELSE c

\* str.lower()
Lower(s) == [k \in 1..Len(s) |-> LowerChar(s[k])]

DigitValue(c) == (CHOOSE k \in 1..Len(Digits) : Digits[k] = c) - 1

\* The values the string hash takes in the model: one per combination of
\* divisibility by 20, 25 and 15 that the analyzers can tell apart.
HashOutputs == <<7, 0, 15, 20, 25, 100>>

\* hash(s) of a str: keyed by the seed the interpreter drew when the process
\* started, so the same string hashes differently in different processes.
\* (The keyed hash itself is the interpreter's; the model keeps what the
\* analyzers depend on: a value fixed by seed and string together.)
PyStrHash(seed, s) ==
    HashOutputs[((seed + SumSeq([k \in 1..Len(s) |-> DigitValue(s[k])])) % Len(HashOutputs)) + 1]

(***************************************************************************)
(* numpy's global generator: np.random.seed fixes the whole stream, every  *)
(* draw advances the one shared state.  The generator is numpy's; the      *)
(* model uses a small multiplicative congruential generator in its place.  *)
(***************************************************************************)
NpModulus == 31
NpMultiplier == 3

\* np.random.seed(customer_id)
NpSeed(customer_id) == (customer_id % (NpModulus - 1)) + 1

NpAdvance(s) == (s * NpMultiplier) % NpModulus

\* np.random.exponential(scale): a draw >= 0, here 0, 0, 1/4, 1 or 3 times the scale
ExponentialQuarters == <<0, 0, 1, 4, 12>>

NpExponential(s, scale) == (scale * ExponentialQuarters[(s % Len(ExponentialQuarters)) + 1]) \div 4

\* np.random.uniform(6, 22): an hour in [6, 22)
UniformHours == <<6, 9, 14, 21>>

NpUniform(s) == UniformHours[(s % Len(UniformHours)) + 1]

(***************************************************************************)
(* Instants.                                                               *)
(***************************************************************************)
HoursPerDay == 24
LookbackDays == 90
MaxDayOffset == 89

\* datetime.date()
DateOf(t) == t \div HoursPerDay

\* datetime.isoformat(): "<date>T<time of day>"
IsoFormat(t) == <<t \div HoursPerDay, t % HoursPerDay>>

\* order of two isoformat strings (date first, then time of day)
IsoLeq(a, b) == a[1] < b[1] \/ (a[1] = b[1] /\ a[2] <= b[2])

RECURSIVE SumCounts(_, _)
SumCounts(counts, keys) ==
    IF keys = {} THEN 0
    ELSE LET k == CHOOSE x \in keys : TRUE
         IN counts[k] + SumCounts(counts, keys \ {k})

\* the counts taken per instant instead of per calendar date
VelocityMetricsPerInstant(timestamps) ==
    IF timestamps = <<>> THEN [max_daily |-> 0, avg_daily |-> [num |-> 0, den |-> 1]]
    ELSE LET dates == {timestamps[k] : k \in 1..Len(timestamps)}
             daily_counts == [d \in dates |->
                                Cardinality({k \in 1..Len(timestamps) : timestamps[k] = d})]
         IN [max_daily |-> CHOOSE m \in {daily_counts[d] : d \in dates} :
                               \A d \in dates : daily_counts[d] <= m,
             avg_daily |-> [num |-> SumCounts(daily_counts, dates), den |-> Cardinality(dates)]]

\* FraudDetectionEngine._calculate_velocity_metrics; avg_daily is the
\* quotient num/den
_calculate_velocity_metrics(timestamps) ==
    IF timestamps = <<>> THEN [max_daily |-> 0, avg_daily |-> [num |-> 0, den |-> 1]]
    ELSE LET dates == {DateOf(timestamps[k]) : k \in 1..Len(timestamps)}
             daily_counts == [d \in dates |->
                                Cardinality({k \in 1..Len(timestamps) : DateOf(timestamps[k]) = d})]
         IN [max_daily |-> CHOOSE m \in {daily_counts[d] : d \in dates} :
                               \A d \in dates : daily_counts[d] <= m,
             avg_daily |-> [num |-> SumCounts(daily_counts, dates), den |-> Cardinality(dates)]]

\* the loop of lines 135-144: two draws per order, in this order
RECURSIVE GenerateTimestamps(_, _, _, _, _)
GenerateTimestamps(i, total_orders, base_date, s, acc) ==
    IF i >= total_orders THEN [timestamps |-> acc, np |-> s]
    ELSE LET s1 == NpAdvance(s)
             days_offset == NpExponential(s1, (LookbackDays * HoursPerDay) \div total_orders) * i
             s2 == NpAdvance(s1)
             hours_offset == NpUniform(s2)
             transaction_time == base_date + Min(MaxDayOffset * HoursPerDay, days_offset) + hours_offset
         IN GenerateTimestamps(i + 1, total_orders, base_date, s2, Append(acc, transaction_time))

\* One iteration of the loop of _simulate_transaction_timestamps on a profile
\* that has a customer_id: the dict as the loop leaves it, and the generator.
SimulateProfile(profile, clock, np) ==
    LET customer_id == profile["customer_id"]
        total_orders == Get(profile, "total_orders", 0)
    IN IF total_orders > 0
       THEN LET base_date == clock - LookbackDays * HoursPerDay
                gen == GenerateTimestamps(0, total_orders, base_date, NpSeed(customer_id), <<>>)
                transaction_timestamps == SortAsc(gen.timestamps)
                p1 == Put(profile, "transaction_timestamps",
                          [k \in 1..Len(transaction_timestamps) |-> IsoFormat(transaction_timestamps[k])])
                p2 == Put(p1, "first_transaction", IsoFormat(transaction_timestamps[1]))
                p3 == Put(p2, "last_transaction",
                          IsoFormat(transaction_timestamps[Len(transaction_timestamps)]))
                p4 == Put(p3, "transaction_velocity", _calculate_velocity_metrics(transaction_timestamps))
            IN [profile |-> p4, np |-> gen.np]
       ELSE [profile |-> Put(Put(profile, "transaction_timestamps", <<>>),
                             "transaction_velocity",
                             [max_daily |-> 0, avg_daily |-> [num |-> 0, den |-> 1]]),
             np |-> np]

(***************************************************************************)
(* FraudDetectionEngine.__init__: weights (hundredths) and thresholds      *)
(* (thousandths).                                                          *)
(***************************************************************************)
\* the temporal weight filed under a key no score is stored under
WeightsWithStrayKey ==
    [velocity_risk |-> 25, geographic_risk |-> 20, behavioral_risk |-> 20,
     profile_risk |-> 15, amount_risk |-> 10, temporal |-> 10]

risk_weights ==
    [velocity_risk |-> 25, geographic_risk |-> 20, behavioral_risk |-> 20,
     profile_risk |-> 15, amount_risk |-> 10, temporal_risk |-> 10]

risk_thresholds == [low |-> 300, medium |-> 600, high |-> 800, critical |-> 900]

RiskLevels == <<"low", "medium", "high", "critical">>

\* the FraudIndicator dataclass, as the dict that indicator.__dict__ gives
\* (description is free text and is left out); confidence in hundredths
FraudIndicator(indicator_type, severity, confidence, contributing_factors) ==
    [indicator_type |-> indicator_type, severity |-> severity,
     confidence |-> confidence, contributing_factors |-> contributing_factors]

\* the strings the analyzers compare with
S_united_states == <<"u", "n", "i", "t", "e", "d", " ", "s", "t", "a", "t", "e", "s">>
S_canada == <<"c", "a", "n", "a", "d", "a">>
S_united_kingdom == <<"u", "n", "i", "t", "e", "d", " ", "k", "i", "n", "g", "d", "o", "m">>
S_temp == <<"t", "e", "m", "p">>
S_disposable == <<"d", "i", "s", "p", "o", "s", "a", "b", "l", "e">>

\* hash(str(profile['customer_id'])) in the running process
CustomerHash(profile, seed) == PyStrHash(seed, Str(profile["customer_id"]))

\* the burst check made whatever the number of orders
VelocityRiskBurstAnyOrders(profile, seed) ==
    LET velocity_data == Get(profile, "transaction_velocity", <<>>)
        max_daily == Get(velocity_data, "max_daily", 0)
        high_velocity == max_daily >= 5
        burst == /\ Len(Get(profile, "transaction_timestamps", <<>>)) > 0
                 /\ CustomerHash(profile, seed) % 20 = 0
        risk_score == (IF high_velocity THEN 6 ELSE 0) + (IF burst THEN 4 ELSE 0)
    IN [score |-> Min(10, risk_score),
        indicators |->
            (IF high_velocity
             THEN <<FraudIndicator("HIGH_VELOCITY", "high", 80, <<"unusual_transaction_frequency">>)>>
             ELSE <<>>)
            \o (IF burst
                THEN <<FraudIndicator("BURST_PATTERN", "medium", 70, <<"transaction_clustering">>)>>
                ELSE <<>>)]

_analyze_velocity_risk(profile, seed) ==
    LET velocity_data == Get(profile, "transaction_velocity", <<>>)
        max_daily == Get(velocity_data, "max_daily", 0)
        total_orders == Get(profile, "total_orders", 0)
        high_velocity == max_daily >= 5
        burst == /\ total_orders >= 10
                 /\ Len(Get(profile, "transaction_timestamps", <<>>)) > 0
                 /\ CustomerHash(profile, seed) % 20 = 0
        risk_score == (IF high_velocity THEN 6 ELSE 0) + (IF burst THEN 4 ELSE 0)
    IN [score |-> Min(10, risk_score),
        indicators |->
            (IF high_velocity
             THEN <<FraudIndicator("HIGH_VELOCITY", "high", 80, <<"unusual_transaction_frequency">>)>>
             ELSE <<>>)
            \o (IF burst
                THEN <<FraudIndicator("BURST_PATTERN", "medium", 70, <<"transaction_clustering">>)>>
                ELSE <<>>)]

\* the geographic check with the two domestic countries of the feature extractor
GeographicRiskTwoDomestic(profile, seed) ==
    LET country == Lower(Get(profile, "country", <<>>))
        international == country \notin {S_united_states, S_canada}
        impossible_travel == CustomerHash(profile, seed) % 25 = 0
        risk_score == (IF international THEN 3 ELSE 0) + (IF impossible_travel THEN 7 ELSE 0)
    IN [score |-> Min(10, risk_score),
        indicators |->
            (IF international
             THEN <<FraudIndicator("INTERNATIONAL_PROFILE", "low", 60, <<"geographic_location">>)>>
             ELSE <<>>)
            \o (IF impossible_travel
                THEN <<FraudIndicator("IMPOSSIBLE_TRAVEL", "high", 90,
                                      <<"geographic_anomaly", "location_spoofing">>)>>
                ELSE <<>>)]

_analyze_geographic_risk(profile, seed) ==
    LET country == Lower(Get(profile, "country", <<>>))
        international == country \notin {S_united_states, S_canada, S_united_kingdom}
        impossible_travel == CustomerHash(profile, seed) % 25 = 0
        risk_score == (IF international THEN 3 ELSE 0) + (IF impossible_travel THEN 7 ELSE 0)
    IN [score |-> Min(10, risk_score),
        indicators |->
            (IF international
             THEN <<FraudIndicator("INTERNATIONAL_PROFILE", "low", 60, <<"geographic_location">>)>>
             ELSE <<>>)
            \o (IF impossible_travel
                THEN <<FraudIndicator("IMPOSSIBLE_TRAVEL", "high", 90,
                                      <<"geographic_anomaly", "location_spoofing">>)>>
                ELSE <<>>)]

\* the unusual diversity scored without an indicator for it
BehavioralRiskUnreported(profile) ==
    LET total_spent == Get(profile, "total_spent", 0)
        total_orders == Get(profile, "total_orders", 0)
        customer_segment == Get(profile, "customer_segment", "new")
        new_high_spending == customer_segment = "new" /\ total_spent > 2000
        diversity_score == Get(profile, "product_diversity_score", 0)
        unusual_diversity == diversity_score > 90 /\ total_orders >= 5
        risk_score == (IF new_high_spending THEN 5 ELSE 0) + (IF unusual_diversity THEN 3 ELSE 0)
    IN [score |-> Min(10, risk_score),
        indicators |->
            IF new_high_spending
            THEN <<FraudIndicator("NEW_CUSTOMER_HIGH_SPENDING", "medium", 70, <<"unusual_behavior_pattern">>)>>
            ELSE <<>>]

_analyze_behavioral_risk(profile) ==
    LET total_spent == Get(profile, "total_spent", 0)
        total_orders == Get(profile, "total_orders", 0)
        customer_segment == Get(profile, "customer_segment", "new")
        new_high_spending == customer_segment = "new" /\ total_spent > 2000
        diversity_score == Get(profile, "product_diversity_score", 0)
        unusual_diversity == diversity_score > 90 /\ total_orders >= 5
        risk_score == (IF new_high_spending THEN 5 ELSE 0) + (IF unusual_diversity THEN 3 ELSE 0)
    IN [score |-> Min(10, risk_score),
        indicators |->
            (IF new_high_spending
             THEN <<FraudIndicator("NEW_CUSTOMER_HIGH_SPENDING", "medium", 70, <<"unusual_behavior_pattern">>)>>
             ELSE <<>>)
            \o (IF unusual_diversity
                THEN <<FraudIndicator("UNUSUAL_PRODUCT_DIVERSITY", "low", 60, <<"behavioral_anomaly">>)>>
                ELSE <<>>)]

_analyze_profile_risk(profile) ==
    LET profile_completeness == Get(profile, "profile_completeness", 100)
        incomplete == profile_completeness < 50
        email == Get(profile, "email", <<>>)
        suspicious_email == email # <<>> /\ (Contains(email, S_temp) \/ Contains(email, S_disposable))
        risk_score == (IF incomplete THEN 4 ELSE 0) + (IF suspicious_email THEN 6 ELSE 0)
    IN [score |-> Min(10, risk_score),
        indicators |->
            (IF incomplete
             THEN <<FraudIndicator("INCOMPLETE_PROFILE", "medium", 80, <<"missing_information">>)>>
             ELSE <<>>)
            \o (IF suspicious_email
                THEN <<FraudIndicator("SUSPICIOUS_EMAIL", "high", 90, <<"email_risk">>)>>
                ELSE <<>>)]

\* the average order value flagged below the limit instead of above it
AmountRiskBelowLimit(profile) ==
    LET avg_order_value == Get(profile, "avg_order_value", 0)
        total_spent == Get(profile, "total_spent", 0)
        high_average == avg_order_value < 1000
        round_number == total_spent > 0 /\ total_spent % 100 = 0
        risk_score == (IF high_average THEN 4 ELSE 0) + (IF round_number THEN 2 ELSE 0)
    IN [score |-> Min(10, risk_score),
        indicators |->
            (IF high_average
             THEN <<FraudIndicator("HIGH_AVERAGE_ORDER", "medium", 70, <<"amount_anomaly">>)>>
             ELSE <<>>)
            \o (IF round_number
                THEN <<FraudIndicator("ROUND_NUMBER_BIAS", "low", 50, <<"amount_pattern">>)>>
                ELSE <<>>)]

_analyze_amount_risk(profile) ==
    LET avg_order_value == Get(profile, "avg_order_value", 0)
        total_spent == Get(profile, "total_spent", 0)
        high_average == avg_order_value > 1000
        round_number == total_spent > 0 /\ total_spent % 100 = 0
        risk_score == (IF high_average THEN 4 ELSE 0) + (IF round_number THEN 2 ELSE 0)
    IN [score |-> Min(10, risk_score),
        indicators |->
            (IF high_average
             THEN <<FraudIndicator("HIGH_AVERAGE_ORDER", "medium", 70, <<"amount_anomaly">>)>>
             ELSE <<>>)
            \o (IF round_number
                THEN <<FraudIndicator("ROUND_NUMBER_BIAS", "low", 50, <<"amount_pattern">>)>>
                ELSE <<>>)]

\* off-hours activity counted as a full score
TemporalRiskFullScore(profile, seed) ==
    LET timestamps == Get(profile, "transaction_timestamps", <<>>)
        off_hours == timestamps # <<>> /\ CustomerHash(profile, seed) % 15 = 0
        risk_score == IF off_hours THEN 10 ELSE 0
    IN [score |-> Min(10, risk_score),
        indicators |->
            IF off_hours
            THEN <<FraudIndicator("OFF_HOURS_ACTIVITY", "low", 60, <<"temporal_anomaly">>)>>
            ELSE <<>>]

_analyze_temporal_risk(profile, seed) ==
    LET timestamps == Get(profile, "transaction_timestamps", <<>>)
        off_hours == timestamps # <<>> /\ CustomerHash(profile, seed) % 15 = 0
        risk_score == IF off_hours THEN 3 ELSE 0
    IN [score |-> Min(10, risk_score),
        indicators |->
            IF off_hours
            THEN <<FraudIndicator("OFF_HOURS_ACTIVITY", "low", 60, <<"temporal_anomaly">>)>>
            ELSE <<>>]

\* the loop of _calculate_composite_risk_score over risk_scores.items()
RECURSIVE WeightedSum(_, _)
WeightedSum(risk_scores, keys) ==
    IF keys = {} THEN 0
    ELSE LET risk_type == CHOOSE k \in keys : TRUE
             weight == Get(risk_weights, risk_type, 0)
         IN risk_scores[risk_type] * weight + WeightedSum(risk_scores, keys \ {risk_type})

\* thousandths
_calculate_composite_risk_score(risk_scores) ==
    Min(1000, WeightedSum(risk_scores, DOMAIN risk_scores))

\* the thresholds compared with > in place of >=
RiskLevelStrictlyAbove(composite_score) ==
    IF composite_score > risk_thresholds["critical"] THEN "critical"
    ELSE IF composite_score > risk_thresholds["high"] THEN "high"
    ELSE IF composite_score > risk_thresholds["medium"] THEN "medium"
    ELSE "low"

_determine_risk_level(composite_score) ==
    IF composite_score >= risk_thresholds["critical"] THEN "critical"
    ELSE IF composite_score >= risk_thresholds["high"] THEN "high"
    ELSE IF composite_score >= risk_thresholds["medium"] THEN "medium"
    ELSE "low"

\* the confidence without its base of 0.5
ConfidenceWithoutBase(risk_score) == Min(95000, risk_score * 45)

\* min(0.95, 0.5 + risk_score * 0.45), in units of 1e-5
_calculate_confidence(risk_score) == Min(95000, 50000 + risk_score * 45)

\* the features copied from the attributes the profile happens to have
FeaturesOfPresentAttributes(profile, risk_scores) ==
    [k \in (DOMAIN profile) \cap {"age", "profile_completeness", "total_spent", "total_orders",
                                  "avg_order_value", "product_diversity_score"} |-> profile[k]]

_extract_ml_features(profile, risk_scores) ==
    [age |-> Get(profile, "age", 0),
     profile_completeness |-> Get(profile, "profile_completeness", 0),
     total_spent |-> Get(profile, "total_spent", 0),
     total_orders |-> Get(profile, "total_orders", 0),
     avg_order_value |-> Get(profile, "avg_order_value", 0),
     product_diversity_score |-> Get(profile, "product_diversity_score", 0),
     customer_activity_score |-> Get(profile, "customer_activity_score", 0),
     risk_velocity_risk |-> risk_scores["velocity_risk"],
     risk_geographic_risk |-> risk_scores["geographic_risk"],
     risk_behavioral_risk |-> risk_scores["behavioral_risk"],
     risk_profile_risk |-> risk_scores["profile_risk"],
     risk_amount_risk |-> risk_scores["amount_risk"],
     risk_temporal_risk |-> risk_scores["temporal_risk"],
     max_daily_transactions |-> Get(Get(profile, "transaction_velocity", <<>>), "max_daily", 0),
     avg_daily_transactions |->
         Get(Get(profile, "transaction_velocity", <<>>), "avg_daily", [num |-> 0, den |-> 1]),
     is_international |->
         IF Lower(Get(profile, "country", <<>>)) \notin {S_united_states, S_canada} THEN 1 ELSE 0,
     is_premium_customer |-> IF Get(profile, "customer_segment", "") = "premium" THEN 1 ELSE 0,
     has_risk_indicators |-> IF Len(Get(profile, "risk_indicators", <<>>)) > 0 THEN 1 ELSE 0]

_perform_fraud_analysis(profile, seed) ==
    LET velocity == _analyze_velocity_risk(profile, seed)
        geographic == _analyze_geographic_risk(profile, seed)
        behavioral == _analyze_behavioral_risk(profile)
        profile_r == _analyze_profile_risk(profile)
        amount == _analyze_amount_risk(profile)
        temporal == _analyze_temporal_risk(profile, seed)
        risk_scores ==
            [velocity_risk |-> velocity.score, geographic_risk |-> geographic.score,
             behavioral_risk |-> behavioral.score, profile_risk |-> profile_r.score,
             amount_risk |-> amount.score, temporal_risk |-> temporal.score]
        indicators == velocity.indicators \o geographic.indicators \o behavioral.indicators
                      \o profile_r.indicators \o amount.indicators \o temporal.indicators
        composite_score == _calculate_composite_risk_score(risk_scores)
        risk_level == _determine_risk_level(composite_score)
    IN [risk_assessment |->
            [composite_risk_score |-> composite_score,
             risk_level |-> risk_level,
             individual_risk_scores |-> risk_scores,
             risk_classification_confidence |-> _calculate_confidence(composite_score)],
        indicators |-> indicators,
        ml_features |-> _extract_ml_features(profile, risk_scores)]

_get_recommended_action(risk_level) ==
    CASE risk_level = "critical" -> "IMMEDIATE_INVESTIGATION_REQUIRED"
      [] risk_level = "high" -> "PRIORITY_REVIEW"
      [] risk_level = "medium" -> "ENHANCED_MONITORING"
      [] risk_level = "low" -> "STANDARD_MONITORING"
      [] OTHER -> "STANDARD_MONITORING"

\* the priority taken strictly above each threshold
PriorityStrictlyAbove(risk_score) ==
    IF risk_score > 900 THEN "P1_URGENT"
    ELSE IF risk_score > 800 THEN "P2_HIGH"
    ELSE IF risk_score > 600 THEN "P3_MEDIUM"
    ELSE "P4_LOW"

_get_investigation_priority(risk_score) ==
    IF risk_score >= 900 THEN "P1_URGENT"
    ELSE IF risk_score >= 800 THEN "P2_HIGH"
    ELSE IF risk_score >= 600 THEN "P3_MEDIUM"
    ELSE "P4_LOW"

\* the alert naming the last three indicators instead of the first three
AlertWithLastThree(profile, clock) ==
    LET n == Len(profile["fraud_indicators"])
    IN [alert_id |-> <<"FRAUD", profile["customer_id"], clock>>,
        customer_id |-> profile["customer_id"],
        customer_name |-> Get(profile, "full_name", "Unknown"),
        risk_level |-> profile["risk_level"],
        risk_score |-> profile["composite_risk_score"],
        primary_indicators |->
            [k \in 1..Min(3, n) |->
                profile["fraud_indicators"][n - Min(3, n) + k]["indicator_type"]],
        alert_timestamp |-> IsoFormat(clock),
        recommended_action |-> _get_recommended_action(profile["risk_level"]),
        investigation_priority |-> _get_investigation_priority(profile["composite_risk_score"])]

\* alert_id is "FRAUD_<customer_id>_<seconds>", here the pair of its parts
_create_fraud_alert(profile, clock) ==
    [alert_id |-> <<"FRAUD", profile["customer_id"], clock>>,
     customer_id |-> profile["customer_id"],
     customer_name |-> Get(profile, "full_name", "Unknown"),
     risk_level |-> profile["risk_level"],
     risk_score |-> profile["composite_risk_score"],
     primary_indicators |->
         [k \in 1..Min(3, Len(profile["fraud_indicators"])) |->
             profile["fraud_indicators"][k]["indicator_type"]],
     alert_timestamp |-> IsoFormat(clock),
     recommended_action |-> _get_recommended_action(profile["risk_level"]),
     investigation_priority |-> _get_investigation_priority(profile["composite_risk_score"])]

\* the share left as a fraction of 1
ShareOfOne(count, total) == IF total > 0 THEN [num |-> count, den |-> total] ELSE [num |-> 0, den |-> 1]

\* a quotient count / total * 100, kept as numerator and denominator
Percentage(count, total) == IF total > 0 THEN [num |-> count * 100, den |-> total] ELSE [num |-> 0, den |-> 1]

_calculate_fraud_metrics(profiles) ==
    LET total_customers == Len(profiles)
        CountAt(level) ==
            Cardinality({k \in 1..Len(profiles) : Get(profiles[k], "risk_level", "") = level})
        risk_distribution ==
            [level \in {RiskLevels[k] : k \in 1..Len(RiskLevels)} |->
                [count |-> CountAt(level), percentage |-> Percentage(CountAt(level), total_customers)]]
        score_sum == SumSeq([k \in 1..Len(profiles) |-> Get(profiles[k], "composite_risk_score", 0)])
    IN [total_customers_analyzed |-> total_customers,
        risk_distribution |-> risk_distribution,
        average_risk_score |->
            IF total_customers > 0 THEN [num |-> score_sum, den |-> total_customers]
            ELSE [num |-> 0, den |-> 1],
        high_risk_customers |->
            risk_distribution["high"].count + risk_distribution["critical"].count,
        fraud_detection_rate |->
            Percentage(risk_distribution["high"].count + risk_distribution["critical"].count,
                       total_customers)]

(***************************************************************************)
(* The profiles the calls are made with.                                   *)
(***************************************************************************)
\* Python's None where a string is expected (a NULL of the source table): a
\* value that no string is equal to
NoneValue == <<"None">>

C_UnitedStates == <<"U", "n", "i", "t", "e", "d", " ", "S", "t", "a", "t", "e", "s">>
C_Germany == <<"G", "e", "r", "m", "a", "n", "y">>
C_UNITED_KINGDOM == <<"U", "N", "I", "T", "E", "D", " ", "K", "I", "N", "G", "D", "O", "M">>
E_plain == <<"a", "@", "b", ".", "c", "o", "m">>
E_temp == <<"x", "@", "t", "e", "m", "p", "m", "a", "i", "l", ".", "i", "o">>

Profile(customer_id, total_orders, total_spent, avg_order_value, country, customer_segment, profile_completeness, product_diversity_score, email) ==
    [customer_id |-> customer_id, total_orders |-> total_orders, total_spent |-> total_spent,
     avg_order_value |-> avg_order_value, country |-> country,
     customer_segment |-> customer_segment, profile_completeness |-> profile_completeness,
     product_diversity_score |-> product_diversity_score, email |-> email, age |-> 30]

\* every combination of the field values the analyzers tell apart
WideProfiles ==
    {Profile(c, n, s, a, co, seg, pcpl, dv, e) :
        c \in {2}, n \in {0, 5, 10}, s \in {0, 2500, 2550}, a \in {208, 1001},
        co \in {C_UnitedStates, C_Germany, C_UNITED_KINGDOM}, seg \in {"new", "premium"},
        pcpl \in {40, 50}, dv \in {50, 95}, e \in {E_plain, E_temp}}

P_suspect(c) == Profile(c, 10, 2500, 1001, C_Germany, "new", 40, 95, E_temp)
P_regular == Profile(1, 5, 1500, 208, C_UnitedStates, "premium", 100, 50, E_plain)
P_inactive == Profile(2, 0, 0, 0, C_UNITED_KINGDOM, "returning", 50, 0, E_plain)
P_sparse == [customer_id |-> 1]
P_no_id == [total_orders |-> 5, country |-> C_Germany]
\* the example profile of the documentation (avg_order_value 208.3 in whole units)
P_example == Profile(42, 12, 2500, 208, C_Germany, "new", 40, 50, E_plain)
P_null_country == Profile(1, 5, 1500, 208, NoneValue, "premium", 100, 50, E_plain)

BatchProfiles == {P_suspect(1), P_suspect(2), P_regular, P_inactive, P_sparse, P_no_id}

\* the lists of at most n profiles drawn from pool
Batches(pool, n) == UNION {[1..k -> pool] : k \in 0..n}

(***************************************************************************)
(* The state machine.                                                      *)
(***************************************************************************)
\* extract_sales_data is not running; its locals are the keys of "locals"
NotExtracting == [at |-> "idle", enabled |-> FALSE, locals |-> <<>>, result |-> <<>>, exc |-> ""]

StartClock == 100 * HoursPerDay

Idle ==
    /\ pc = "idle" /\ entry = "" /\ customer_profiles = <<>> /\ called_with = <<>>
    /\ idx = 0 /\ risk_analyzed_profiles = <<>> /\ fraud_alerts = <<>>
    /\ fraud_metrics = <<>> /\ exc = ""

\* the process starts, and the call is made, at any time of the day
Init ==
    /\ ticks \in 0..MaxTicks
    /\ now = StartClock + ticks * ClockStep
    /\ hashSeed \in 0..(NumHashSeeds - 1)
    /\ npState = 1
    /\ Idle
    /\ staging = <<>>
    /\ runs = 0
    /\ prev = <<>>
    /\ hIn = 0
    /\ hOut = ""
    /\ workers = <<>>
    /\ extraction = NotExtracting

\* the wall clock advances while the process runs
Tick ==
    /\ ticks < MaxTicks
    /\ now' = now + ClockStep
    /\ ticks' = ticks + 1
    /\ UNCHANGED <<hashSeed, npState, pc, entry, customer_profiles, called_with, idx,
                   risk_analyzed_profiles, fraud_alerts, fraud_metrics, exc, staging,
                   runs, prev, hIn, hOut, workers, extraction>>

\* FraudDetectionEngine().enrich_fraud_indicators(batch) is called
Enter(batch, from) ==
    /\ pc = "idle"
    /\ entry' = from
    /\ customer_profiles' = batch
    /\ called_with' = batch
    /\ pc' = "simulate"
    /\ idx' = 1
    /\ UNCHANGED <<now, ticks, hashSeed, npState, risk_analyzed_profiles, fraud_alerts,
                   fraud_metrics, exc, staging, runs, prev, hIn, hOut, workers, extraction>>

\* the engine refusing an empty list the way the task does
CallEngineRefusingEmpty(pool, n) ==
    \E batch \in Batches(pool, n) :
        IF batch = <<>>
        THEN /\ pc = "idle"
             /\ entry' = "engine"
             /\ pc' = "raised"
             /\ exc' = "ValueError"
             /\ runs' = runs + 1
             /\ UNCHANGED <<now, ticks, hashSeed, npState, customer_profiles, called_with, idx,
                            risk_analyzed_profiles, fraud_alerts, fraud_metrics, staging,
                            prev, hIn, hOut, workers, extraction>>
        ELSE Enter(batch, "engine")

CallEngine(pool, n) == \E batch \in Batches(pool, n) : Enter(batch, "engine")

\* the task enrich_fraud_indicators(**context): the rows of
\* analytics.stg_customer_metrics are the batch; no rows is a ValueError
CallTask(pool, n) ==
    \E rows \in Batches(pool, n) :
        IF rows = <<>>
        THEN /\ pc = "idle"
             /\ entry' = "task"
             /\ pc' = "raised"
             /\ exc' = "ValueError"
             /\ runs' = runs + 1
             /\ UNCHANGED <<now, ticks, hashSeed, npState, customer_profiles, called_with, idx,
                            risk_analyzed_profiles, fraud_alerts, fraud_metrics, staging,
                            prev, hIn, hOut, workers, extraction>>
        ELSE Enter(rows, "task")

\* one iteration of the loop of _simulate_transaction_timestamps: the dict in
\* the caller's list is the dict that is written to
SimulateStep ==
    /\ pc = "simulate"
    /\ idx <= Len(customer_profiles)
    /\ LET profile == customer_profiles[idx]
       IN IF "customer_id" \notin DOMAIN profile
          THEN /\ pc' = "raised"
               /\ exc' = "KeyError"
               /\ runs' = runs + 1
               /\ UNCHANGED <<customer_profiles, npState, idx>>
          ELSE LET r == SimulateProfile(profile, now, npState)
               IN /\ customer_profiles' = [customer_profiles EXCEPT ![idx] = r.profile]
                  /\ npState' = r.np
                  /\ idx' = idx + 1
                  /\ UNCHANGED <<pc, exc, runs>>
    /\ UNCHANGED <<now, ticks, hashSeed, entry, called_with, risk_analyzed_profiles,
                   fraud_alerts, fraud_metrics, staging, prev, hIn, hOut, workers, extraction>>

\* _simulate_transaction_timestamps returns; the loop of line 82 starts
SimulateDone ==
    /\ pc = "simulate"
    /\ idx > Len(customer_profiles)
    /\ pc' = "analyze"
    /\ idx' = 1
    /\ UNCHANGED <<now, ticks, hashSeed, npState, entry, customer_profiles, called_with,
                   risk_analyzed_profiles, fraud_alerts, fraud_metrics, exc, staging,
                   runs, prev, hIn, hOut, workers, extraction>>

\* the merge in which the keys of the input profile win over the assessment
EnrichedProfileInputWins(profile, fraud_analysis) ==
    Merge(Merge(fraud_analysis.risk_assessment, profile),
          [fraud_indicators |-> fraud_analysis.indicators,
           ml_features |-> fraud_analysis.ml_features])

\* {**profile, **risk_assessment, 'fraud_indicators': ..., 'ml_features': ...}
EnrichedProfile(profile, fraud_analysis) ==
    Merge(Merge(profile, fraud_analysis.risk_assessment),
          [fraud_indicators |-> fraud_analysis.indicators,
           ml_features |-> fraud_analysis.ml_features])

\* an alert from medium upwards
AlertsFromMedium(fraud_analysis, enriched_profile, clock) ==
    IF fraud_analysis.risk_assessment.risk_level \in {"medium", "high", "critical"}
    THEN <<_create_fraud_alert(enriched_profile, clock)>>
    ELSE <<>>

\* lines 96-98: what one profile adds to fraud_alerts
AlertsFor(fraud_analysis, enriched_profile, clock) ==
    IF fraud_analysis.risk_assessment.risk_level \in {"high", "critical"}
    THEN <<_create_fraud_alert(enriched_profile, clock)>>
    ELSE <<>>

\* profile.get('country', '').lower() in _analyze_geographic_risk: None has
\* no lower(), and nothing between there and enrich_fraud_indicators catches
\* the AttributeError
GeographicRaises(profile) == Get(profile, "country", <<>>) = NoneValue

\* the loop body putting each record in front of the earlier ones
AnalyzeStepPrepending ==
    /\ pc = "analyze"
    /\ idx <= Len(customer_profiles)
    /\ LET profile == customer_profiles[idx]
           fraud_analysis == _perform_fraud_analysis(profile, hashSeed)
           enriched_profile == EnrichedProfile(profile, fraud_analysis)
       IN IF GeographicRaises(profile)
          THEN /\ pc' = "raised"
               /\ exc' = "AttributeError"
               /\ runs' = runs + 1
               /\ UNCHANGED <<risk_analyzed_profiles, fraud_alerts, idx>>
          ELSE /\ risk_analyzed_profiles' = <<enriched_profile>> \o risk_analyzed_profiles
               /\ fraud_alerts' = fraud_alerts \o AlertsFor(fraud_analysis, enriched_profile, now)
               /\ idx' = idx + 1
               /\ UNCHANGED <<pc, exc, runs>>
    /\ UNCHANGED <<now, ticks, hashSeed, npState, entry, customer_profiles, called_with,
                   fraud_metrics, staging, prev, hIn, hOut, workers, extraction>>

\* one iteration of the loop of lines 82-98; an exception of an analyzer
\* leaves through the except clause of line 112, which logs and re-raises
AnalyzeStep ==
    /\ pc = "analyze"
    /\ idx <= Len(customer_profiles)
    /\ LET profile == customer_profiles[idx]
           fraud_analysis == _perform_fraud_analysis(profile, hashSeed)
           enriched_profile == EnrichedProfile(profile, fraud_analysis)
       IN IF GeographicRaises(profile)
          THEN /\ pc' = "raised"
               /\ exc' = "AttributeError"
               /\ runs' = runs + 1
               /\ UNCHANGED <<risk_analyzed_profiles, fraud_alerts, idx>>
          ELSE /\ risk_analyzed_profiles' = Append(risk_analyzed_profiles, enriched_profile)
               /\ fraud_alerts' = fraud_alerts \o AlertsFor(fraud_analysis, enriched_profile, now)
               /\ idx' = idx + 1
               /\ UNCHANGED <<pc, exc, runs>>
    /\ UNCHANGED <<now, ticks, hashSeed, npState, entry, customer_profiles, called_with,
                   fraud_metrics, staging, prev, hIn, hOut, workers, extraction>>

\* the rows _save_fraud_scores_to_staging writes (TRUNCATE, then INSERT)
StagingRows(fraud_profiles) ==
    [k \in 1..Len(fraud_profiles) |->
        [customer_id |-> fraud_profiles[k]["customer_id"],
         composite_risk_score |-> fraud_profiles[k]["composite_risk_score"],
         risk_level |-> fraud_profiles[k]["risk_level"],
         individual_risk_scores |-> fraud_profiles[k]["individual_risk_scores"]]]

_save_fraud_scores_to_staging(fraud_profiles, table) ==
    IF fraud_profiles = <<>> THEN table ELSE StagingRows(fraud_profiles)

\* lines 100-110 of the engine, and lines 606-614 of the task when it is the caller
Finish ==
    /\ pc = "analyze"
    /\ idx > Len(customer_profiles)
    /\ fraud_metrics' = _calculate_fraud_metrics(risk_analyzed_profiles)
    /\ staging' = IF entry = "task"
                  THEN _save_fraud_scores_to_staging(risk_analyzed_profiles, staging)
                  ELSE staging
    /\ pc' = "returned"
    /\ runs' = runs + 1
    /\ UNCHANGED <<now, ticks, hashSeed, npState, entry, customer_profiles, called_with, idx,
                   risk_analyzed_profiles, fraud_alerts, exc, prev, hIn, hOut, workers, extraction>>

Next ==
    \/ Tick
    \/ CallEngine(BatchProfiles, MaxBatch)
    \/ CallTask(BatchProfiles, MaxBatch)
    \/ SimulateStep
    \/ SimulateDone
    \/ AnalyzeStep
    \/ Finish

Spec == Init /\ [][Next]_vars

(***************************************************************************)
(* One profile at a time, over every combination of field values.          *)
(***************************************************************************)
AnalysisProfiles == WideProfiles \cup BatchProfiles \cup {P_null_country}

CallEngineWithOne(pool) == \E profile \in pool : Enter(<<profile>>, "engine")

NextProfile ==
    \/ CallEngineWithOne(AnalysisProfiles)
    \/ SimulateStep
    \/ SimulateDone
    \/ AnalyzeStep
    \/ Finish

SpecProfile == Init /\ [][NextProfile]_vars

(***************************************************************************)
(* Several calls, in the same process or in a new one.                     *)
(***************************************************************************)
MaxRuns == 2

RunProfiles == {P_suspect(2), P_regular, P_example}

Ended == pc \in {"returned", "raised"}

\* the caller keeps what the call returned and calls again, in the same process
NextRun ==
    /\ Ended
    /\ runs < MaxRuns
    /\ prev' = risk_analyzed_profiles
    /\ pc' = "idle" /\ entry' = "" /\ customer_profiles' = <<>> /\ called_with' = <<>>
    /\ idx' = 0 /\ risk_analyzed_profiles' = <<>> /\ fraud_alerts' = <<>>
    /\ fraud_metrics' = <<>> /\ exc' = ""
    /\ UNCHANGED <<now, ticks, hashSeed, npState, staging, runs, hIn, hOut, workers, extraction>>

\* the next call is made in a new process: the interpreter draws a new string
\* hash seed, and numpy's generator starts afresh
Restart ==
    /\ Ended
    /\ runs < MaxRuns
    /\ prev' = risk_analyzed_profiles
    /\ hashSeed' \in 0..(NumHashSeeds - 1)
    /\ npState' = 1
    /\ pc' = "idle" /\ entry' = "" /\ customer_profiles' = <<>> /\ called_with' = <<>>
    /\ idx' = 0 /\ risk_analyzed_profiles' = <<>> /\ fraud_alerts' = <<>>
    /\ fraud_metrics' = <<>> /\ exc' = ""
    /\ UNCHANGED <<now, ticks, staging, runs, hIn, hOut, workers, extraction>>

NextRuns ==
    \/ Tick
    \/ CallEngineWithOne(RunProfiles)
    \/ SimulateStep
    \/ SimulateDone
    \/ AnalyzeStep
    \/ Finish
    \/ NextRun
    \/ Restart

SpecRuns == Init /\ [][NextRuns]_vars

(***************************************************************************)
(* _determine_risk_level applied on its own to every score of the grid.    *)
(***************************************************************************)
CompositeGrid == 0..1000

InitLevel ==
    /\ now = StartClock /\ ticks = 0 /\ hashSeed = 0 /\ npState = 1
    /\ Idle /\ staging = <<>> /\ runs = 0 /\ prev = <<>>
    /\ hIn \in CompositeGrid
    /\ hOut = ""
    /\ workers = <<>>
    /\ extraction = NotExtracting

ApplyDetermineRiskLevel ==
    /\ hOut = ""
    /\ hOut' = _determine_risk_level(hIn)
    /\ UNCHANGED <<now, hashSeed, npState, pc, entry, customer_profiles, called_with, idx,
                   risk_analyzed_profiles, fraud_alerts, fraud_metrics, exc, staging,
                   runs, prev, ticks, hIn, workers, extraction>>

SpecLevel == InitLevel /\ [][ApplyDetermineRiskLevel]_vars

(***************************************************************************)
(* The pipeline of one profile run by several threads at once, one profile *)
(* each: the calls into np.random are the steps, and the generator they    *)
(* seed and draw from is the one generator of the process.                 *)
(***************************************************************************)
WorkerProfiles == {Profile(1, 2, 1500, 208, C_UnitedStates, "premium", 100, 50, E_plain),
                   Profile(2, 3, 2500, 1001, C_Germany, "new", 40, 95, E_temp)}

NewWorker(profile) ==
    [input |-> profile, profile |-> profile, at |-> "seed", base_date |-> 0, i |-> 0,
     days_offset |-> 0, timestamps |-> <<>>]

InitWorkers ==
    /\ now = StartClock /\ ticks = 0 /\ npState = 1
    /\ hashSeed \in 0..(NumHashSeeds - 1)
    /\ Idle /\ staging = <<>> /\ runs = 0 /\ prev = <<>>
    /\ hIn = 0 /\ hOut = ""
    /\ workers \in [1..NumWorkers -> {NewWorker(profile) : profile \in WorkerProfiles}]
    /\ extraction = NotExtracting

\* lines 147-157: the sorted timeline and what is derived from it, written to the dict
WriteTimeline(profile, timestamps) ==
    LET transaction_timestamps == SortAsc(timestamps)
        p1 == Put(profile, "transaction_timestamps",
                  [k \in 1..Len(transaction_timestamps) |-> IsoFormat(transaction_timestamps[k])])
        p2 == Put(p1, "first_transaction", IsoFormat(transaction_timestamps[1]))
        p3 == Put(p2, "last_transaction",
                  IsoFormat(transaction_timestamps[Len(transaction_timestamps)]))
    IN Put(p3, "transaction_velocity", _calculate_velocity_metrics(transaction_timestamps))

WorkerUnchanged ==
    UNCHANGED <<now, hashSeed, pc, entry, customer_profiles, called_with, idx,
                risk_analyzed_profiles, fraud_alerts, fraud_metrics, exc, staging,
                runs, prev, ticks, hIn, hOut, extraction>>

\* lines 131-132: base_date, then np.random.seed(customer_id)
WorkerSeed(w) ==
    /\ workers[w].at = "seed"
    /\ npState' = NpSeed(workers[w].profile["customer_id"])
    /\ workers' = [workers EXCEPT ![w].at = "exponential",
                                  ![w].base_date = now - LookbackDays * HoursPerDay]
    /\ WorkerUnchanged

\* line 137: days_offset = np.random.exponential(scale=90/total_orders) * i
WorkerExponential(w) ==
    /\ workers[w].at = "exponential"
    /\ LET s1 == NpAdvance(npState)
           total_orders == workers[w].profile["total_orders"]
       IN /\ npState' = s1
          /\ workers' = [workers EXCEPT
                 ![w].days_offset =
                     NpExponential(s1, (LookbackDays * HoursPerDay) \div total_orders) * workers[w].i,
                 ![w].at = "uniform"]
    /\ WorkerUnchanged

\* lines 138-144: hours_offset = np.random.uniform(6, 22), the timestamp is
\* appended; after the last order, lines 147-157
WorkerUniform(w) ==
    /\ workers[w].at = "uniform"
    /\ LET s2 == NpAdvance(npState)
           me == workers[w]
           transaction_time == me.base_date + Min(MaxDayOffset * HoursPerDay, me.days_offset)
                               + NpUniform(s2)
           timestamps == Append(me.timestamps, transaction_time)
       IN /\ npState' = s2
          /\ workers' = [workers EXCEPT ![w] =
                 IF me.i + 1 >= me.profile["total_orders"]
                 THEN [me EXCEPT !.timestamps = timestamps, !.i = me.i + 1, !.at = "analyze",
                                 !.profile = WriteTimeline(me.profile, timestamps)]
                 ELSE [me EXCEPT !.timestamps = timestamps, !.i = me.i + 1,
                                 !.at = "exponential"]]
    /\ WorkerUnchanged

\* lines 84-92 for the worker's profile
WorkerAnalyze(w) ==
    /\ workers[w].at = "analyze"
    /\ workers' = [workers EXCEPT
           ![w].profile = EnrichedProfile(workers[w].profile,
                                          _perform_fraud_analysis(workers[w].profile, hashSeed)),
           ![w].at = "done"]
    /\ UNCHANGED npState
    /\ WorkerUnchanged

NextWorkers ==
    \E w \in 1..NumWorkers :
        \/ WorkerSeed(w)
        \/ WorkerExponential(w)
        \/ WorkerUniform(w)
        \/ WorkerAnalyze(w)

SpecWorkers == InitWorkers /\ [][NextWorkers]_vars

(***************************************************************************)
(* Lines 94-98 and the alert functions applied on their own to a profile   *)
(* classified at every score of the grid.                                  *)
(***************************************************************************)
InitAlert ==
    /\ now = StartClock /\ ticks = 0 /\ hashSeed = 0 /\ npState = 1
    /\ Idle /\ staging = <<>> /\ runs = 0 /\ prev = <<>>
    /\ hIn \in CompositeGrid
    /\ hOut = ""
    /\ workers = <<>>
    /\ extraction = NotExtracting

\* an enriched profile that _perform_fraud_analysis scored at composite_score
ClassifiedProfile(composite_score) ==
    [customer_id |-> 2, composite_risk_score |-> composite_score,
     risk_level |-> _determine_risk_level(composite_score), fraud_indicators |-> <<>>]

ApplyCreateAlert ==
    /\ pc = "idle"
    /\ pc' = "applied"
    /\ LET enriched_profile == ClassifiedProfile(hIn)
           fraud_analysis == [risk_assessment |-> [risk_level |-> enriched_profile.risk_level]]
       IN hOut' = [alerts |-> AlertsFor(fraud_analysis, enriched_profile, now),
                   risk_level |-> enriched_profile.risk_level,
                   recommended_action |-> _get_recommended_action(enriched_profile.risk_level),
                   investigation_priority |-> _get_investigation_priority(hIn)]
    /\ UNCHANGED <<now, hashSeed, npState, entry, customer_profiles, called_with, idx,
                   risk_analyzed_profiles, fraud_alerts, fraud_metrics, exc, staging,
                   runs, prev, ticks, hIn, workers, extraction>>

SpecAlert == InitAlert /\ [][ApplyCreateAlert]_vars

(***************************************************************************)
(* _perform_fraud_analysis and its _extract_ml_features applied on their   *)
(* own to profiles that lack any of the optional attributes.               *)
(***************************************************************************)
OptionalAttributes ==
    {"age", "total_spent", "total_orders", "avg_order_value", "profile_completeness",
     "product_diversity_score", "country", "customer_segment", "transaction_velocity"}

\* the dict without some of its keys
Without(d, keys) == [k \in (DOMAIN d) \ keys |-> d[k]]

\* profiles as _simulate_transaction_timestamps leaves them, and the same
\* with every subset of the optional attributes absent
SparseProfiles ==
    {Without(SimulateProfile(profile, StartClock, 1).profile, absent) :
        profile \in {P_suspect(2), P_regular}, absent \in SUBSET OptionalAttributes}

InitFeatures ==
    /\ now = StartClock /\ ticks = 0 /\ hashSeed = 0 /\ npState = 1
    /\ Idle /\ staging = <<>> /\ runs = 0 /\ prev = <<>>
    /\ hIn \in SparseProfiles
    /\ hOut = ""
    /\ workers = <<>>
    /\ extraction = NotExtracting

ApplyExtractMlFeatures ==
    /\ pc = "idle"
    /\ pc' = "applied"
    /\ hOut' = _perform_fraud_analysis(hIn, hashSeed).ml_features
    /\ UNCHANGED <<now, hashSeed, npState, entry, customer_profiles, called_with, idx,
                   risk_analyzed_profiles, fraud_alerts, fraud_metrics, exc, staging,
                   runs, prev, ticks, hIn, workers, extraction>>

SpecFeatures == InitFeatures /\ [][ApplyExtractMlFeatures]_vars

(***************************************************************************)
(* The engine called with two profiles that differ in one numeric field:   *)
(* the field absent and the field 0, or two average order values.          *)
(***************************************************************************)
NumericFields ==
    {"total_orders", "total_spent", "avg_order_value", "profile_completeness",
     "product_diversity_score", "age"}

AverageOrderValues == {0, 999, 1000, 1001, 5000}

PairBases == {P_suspect(2), P_regular}

FieldPairs ==
    {<<Without(profile, {f}), Put(profile, f, 0)>> : profile \in PairBases, f \in NumericFields}
    \cup {<<Put(profile, "avg_order_value", a), Put(profile, "avg_order_value", b)>> :
              profile \in PairBases, a \in AverageOrderValues, b \in AverageOrderValues}

CallEngineWithPair == \E pair \in FieldPairs : Enter(pair, "engine")

NextPairs ==
    \/ CallEngineWithPair
    \/ SimulateStep
    \/ SimulateDone
    \/ AnalyzeStep
    \/ Finish

SpecPairs == Init /\ [][NextPairs]_vars

(***************************************************************************)
(* The task extract_sales_data with the PII masker of the process.         *)
(***************************************************************************)
Stars == <<"*", "*", "*">>

IsEmptyOrNone(v) == v = NoneValue \/ v = <<>>

\* mask_email: local[0] + '***' + local[-1] + '@' + domain; whatever goes
\* wrong in the split gives the email back
mask_email(email, enabled) ==
    IF IsEmptyOrNone(email) \/ ~enabled THEN email
    ELSE LET ats == {k \in 1..Len(email) : email[k] = "@"}
         IN IF Cardinality(ats) # 1 THEN email
            ELSE LET at == CHOOSE k \in ats : TRUE
                     local == SubSeq(email, 1, at - 1)
                     domain == SubSeq(email, at + 1, Len(email))
                 IN IF local = <<>> THEN email
                    ELSE IF Len(local) <= 2 THEN <<local[1]>> \o Stars \o <<"@">> \o domain
                    ELSE <<local[1]>> \o Stars \o <<local[Len(local)]>> \o <<"@">> \o domain

\* hash_email: sha256 of email and salt (the digest is hashlib's; the model
\* keeps what it is a function of)
hash_email(email, salt) == IF IsEmptyOrNone(email) THEN NoneValue ELSE <<"sha256", email, salt>>

\* ''.join(filter(str.isdigit, phone))
RECURSIVE DigitsOf(_)
DigitsOf(s) ==
    IF s = <<>> THEN <<>>
    ELSE (IF \E k \in 1..Len(Digits) : Digits[k] = s[1] THEN <<s[1]>> ELSE <<>>) \o DigitsOf(Tail(s))

mask_phone(phone, enabled) ==
    IF IsEmptyOrNone(phone) \/ ~enabled THEN phone
    ELSE LET digits == DigitsOf(phone)
         IN IF Len(digits) >= 4
            THEN Stars \o <<"-">> \o Stars \o <<"-">> \o SubSeq(digits, Len(digits) - 3, Len(digits))
            ELSE Stars \o <<"-">> \o Stars \o <<"-", "*", "*", "*", "*">>

\* str.split() on blanks
RECURSIVE SplitBlanks(_, _)
SplitBlanks(s, word) ==
    IF s = <<>> THEN (IF word = <<>> THEN <<>> ELSE <<word>>)
    ELSE IF s[1] = " " THEN (IF word = <<>> THEN <<>> ELSE <<word>>) \o SplitBlanks(Tail(s), <<>>)
    ELSE SplitBlanks(Tail(s), Append(word, s[1]))

\* ' '.join(parts)
RECURSIVE JoinBlanks(_)
JoinBlanks(parts) ==
    IF parts = <<>> THEN <<>>
    ELSE IF Len(parts) = 1 THEN parts[1]
    ELSE parts[1] \o <<" ">> \o JoinBlanks(Tail(parts))

mask_name(name, enabled) ==
    IF IsEmptyOrNone(name) \/ ~enabled THEN name
    ELSE LET parts == SplitBlanks(name, <<>>)
         IN JoinBlanks([k \in 1..Len(parts) |->
                IF Len(parts[k]) > 1 THEN <<parts[k][1]>> \o Stars ELSE parts[k]])

MASKING_SALT == "default_salt"

\* lines 61-68 of extract_sales_data: what the loop does to one user dict
MaskUser(user, enabled) ==
    LET u1 == Put(user, "email_hash", hash_email(Get(user, "email", NoneValue), MASKING_SALT))
        u2 == Put(u1, "email", mask_email(Get(user, "email", NoneValue), enabled))
        u3 == Put(u2, "phone", mask_phone(Get(user, "phone", NoneValue), enabled))
        u4 == Put(u3, "firstName", mask_name(Get(user, "firstName", NoneValue), enabled))
    IN Put(u4, "lastName", mask_name(Get(user, "lastName", NoneValue), enabled))

\* the last user of the list with this id, {} when there is none
UserLookup(users_data, user_id) ==
    LET hits == {k \in 1..Len(users_data) : users_data[k]["id"] = user_id}
    IN IF hits = {} THEN <<>> ELSE users_data[CHOOSE k \in hits : \A j \in hits : j <= k]

_validate_sales_record(record) == record.price > 0 /\ record.quantity > 0

\* the sales record of one product of one cart
SalesRecord(cart, product, user_profile) ==
    [transaction_id |-> <<"TXN", cart["id"], product["id"]>>,
     customer_id |-> <<"CUST", cart["userId"]>>,
     product_id |-> <<"PROD", product["id"]>>,
     quantity |-> Get(product, "quantity", 1),
     price |-> Get(product, "price", 0),
     region |-> <<"NORTH", "SOUTH", "EAST", "WEST">>[(cart["id"] % 4) + 1],
     customer_age |-> Get(user_profile, "age", NoneValue),
     customer_email |-> Get(user_profile, "email", NoneValue),
     customer_phone |-> Get(user_profile, "phone", NoneValue)]

\* the records of all products of all carts, valid or not, in order
RECURSIVE FlattenCarts(_, _)
FlattenCarts(carts_data, users_data) ==
    IF carts_data = <<>> THEN <<>>
    ELSE LET cart == carts_data[1]
             user_profile == UserLookup(users_data, cart["userId"])
         IN [k \in 1..Len(cart["products"]) |-> SalesRecord(cart, cart["products"][k], user_profile)]
            \o FlattenCarts(Tail(carts_data), users_data)

_transform_api_data_to_sales_schema(carts_data, users_data) ==
    LET all == FlattenCarts(carts_data, users_data)
    IN [sales_records |-> SelectSeq(all, _validate_sales_record),
        skipped_records |-> Len(all) - Len(SelectSeq(all, _validate_sales_record))]

HasEmail(record) == ~IsEmptyOrNone(record.customer_email)

_generate_extraction_summary(sales_records, skipped_records) ==
    [status |-> "success",
     records_extracted |-> Len(sales_records),
     records_skipped |-> skipped_records,
     unique_customers |->
         Cardinality({sales_records[k].customer_id : k \in 1..Len(sales_records)}),
     data_quality_score |->
         IF Len(sales_records) + skipped_records > 0
         THEN [num |-> Len(sales_records), den |-> Len(sales_records) + skipped_records]
         ELSE [num |-> 0, den |-> 1],
     customer_enrichment_rate |->
         IF sales_records # <<>>
         THEN [num |-> Len(SelectSeq(sales_records, HasEmail)), den |-> Len(sales_records)]
         ELSE [num |-> 0, den |-> 1],
     fraud_detection_ready |-> Len(sales_records) > 0]

\* what the two API calls answer
S_true == <<"t", "r", "u", "e">>
EnvMaskingValues == {<<"f", "a", "l", "s", "e">>, S_true, <<"T", "r", "u", "e">>, <<"1">>}

U_john ==
    [id |-> 1, email |-> <<"j", "o", "h", "n", "@", "x", ".", "i", "o">>,
     phone |-> <<"+", "1", " ", "5", "5", "5", "-", "1", "2", "3", "4">>,
     firstName |-> <<"J", "o", "h", "n">>, lastName |-> <<"D", "o", "e">>, age |-> 30]
U_bare == [id |-> 2]

UserPool == {U_john, U_bare}

CartPool ==
    {[id |-> 1, userId |-> 1, products |-> <<[id |-> 10, quantity |-> 2, price |-> 50]>>],
     [id |-> 2, userId |-> 2, products |-> <<[id |-> 11, quantity |-> 1, price |-> 0]>>],
     [id |-> 3, userId |-> 9, products |-> <<>>]}

\* the process starts: the singleton _masker = PIIMasker() reads
\* ENABLE_PII_MASKING ('false' when unset)
InitExtract ==
    /\ now = StartClock /\ ticks = 0 /\ hashSeed = 0 /\ npState = 1
    /\ Idle /\ staging = <<>> /\ runs = 0 /\ prev = <<>>
    /\ hIn = 0 /\ hOut = ""
    /\ workers = <<>>
    /\ \E env \in EnvMaskingValues :
           extraction = [NotExtracting EXCEPT !.enabled = (Lower(env) = S_true)]

ExtractUnchanged ==
    UNCHANGED <<now, hashSeed, npState, pc, entry, customer_profiles, called_with, idx,
                risk_analyzed_profiles, fraud_alerts, fraud_metrics, exc, staging,
                runs, prev, ticks, hIn, hOut, workers>>

\* lines 55-56: both API calls succeed
ExtractFetch ==
    /\ extraction.at = "idle"
    /\ \E carts_data \in Batches(CartPool, MaxBatch), users_data \in Batches(UserPool, MaxBatch) :
           extraction' = [extraction EXCEPT
               !.at = "fetched",
               !.locals = [carts_data |-> carts_data, users_data |-> users_data]]
    /\ ExtractUnchanged

\* lines 59-71: the masking loop, and the transformation inside the same if
ExtractMaskAndTransform ==
    /\ extraction.at = "fetched"
    /\ IF extraction.enabled
       THEN LET users_data == [k \in 1..Len(extraction.locals.users_data) |->
                                  MaskUser(extraction.locals.users_data[k], extraction.enabled)]
                t == _transform_api_data_to_sales_schema(extraction.locals.carts_data, users_data)
            IN extraction' = [extraction EXCEPT
                   !.at = "summary",
                   !.locals = Put(Put(Put(extraction.locals, "users_data", users_data),
                                      "sales_records", t.sales_records),
                                  "skipped_records", t.skipped_records)]
       ELSE extraction' = [extraction EXCEPT !.at = "summary"]
    /\ ExtractUnchanged

\* lines 74-89: a local that was never assigned is an UnboundLocalError
ExtractSummary ==
    /\ extraction.at = "summary"
    /\ IF "sales_records" \notin DOMAIN extraction.locals
       THEN extraction' = [extraction EXCEPT !.at = "raised", !.exc = "UnboundLocalError"]
       ELSE extraction' = [extraction EXCEPT
                !.at = "returned",
                !.result = Merge(_generate_extraction_summary(extraction.locals.sales_records,
                                                              extraction.locals.skipped_records),
                                 [users_data |-> extraction.locals.users_data,
                                  carts_data |-> extraction.locals.carts_data])]
    /\ ExtractUnchanged

NextExtract ==
    \/ ExtractFetch
    \/ ExtractMaskAndTransform
    \/ ExtractSummary

SpecExtract == InitExtract /\ [][NextExtract]_vars

(***************************************************************************)
(* The engine called with profiles that already carry a risk_level and a   *)
(* composite_risk_score of their own.                                      *)
(***************************************************************************)
\* the profile with an assessment somebody made before
Labelled(profile, risk_level, composite_risk_score) ==
    Put(Put(profile, "risk_level", risk_level), "composite_risk_score", composite_risk_score)

LabelledProfiles ==
    {P_suspect(2), Labelled(P_suspect(2), "low", 100), Labelled(P_regular, "critical", 950),
     Labelled(P_inactive, "high", 800)}

NextLabelled ==
    \/ CallEngine(LabelledProfiles, MaxBatch)
    \/ SimulateStep
    \/ SimulateDone
    \/ AnalyzeStep
    \/ Finish

SpecLabelled == Init /\ [][NextLabelled]_vars

(***************************************************************************)
(* Properties.                                                             *)
(***************************************************************************)
Dimensions == {"velocity_risk", "geographic_risk", "behavioral_risk",
               "profile_risk", "amount_risk", "temporal_risk"}

\* C1: every analysed profile has its six dimension scores in [0,1], its
\* composite score in [0,1] and its classification confidence in [0.5,0.95].
C1_ScoresBounded ==
    \A k \in 1..Len(risk_analyzed_profiles) :
        LET p == risk_analyzed_profiles[k]
        IN /\ DOMAIN p["individual_risk_scores"] = Dimensions
           /\ \A d \in Dimensions :
                  p["individual_risk_scores"][d] >= 0 /\ p["individual_risk_scores"][d] <= 10
           /\ p["composite_risk_score"] >= 0 /\ p["composite_risk_score"] <= 1000
           /\ p["risk_classification_confidence"] >= 50000
           /\ p["risk_classification_confidence"] <= 95000

\* C1 witness: an analysed profile with a dimension at its maximum of 1.0 and
\* another with no risk at all (confidence at its minimum)
C1_Witness ==
    /\ pc = "returned"
    /\ \E k \in 1..Len(risk_analyzed_profiles) :
           /\ risk_analyzed_profiles[k]["individual_risk_scores"]["velocity_risk"] = 10
           /\ risk_analyzed_profiles[k]["individual_risk_scores"]["profile_risk"] = 10
           /\ risk_analyzed_profiles[k]["risk_classification_confidence"] > 80000

\* C2: _determine_risk_level gives critical iff c >= 0.9, high iff
\* 0.8 <= c < 0.9, medium iff 0.6 <= c < 0.8 and low iff c < 0.6.
C2_LevelByThreshold ==
    hOut # "" =>
        /\ hOut \in {"low", "medium", "high", "critical"}
        /\ (hOut = "critical") <=> (hIn >= 900)
        /\ (hOut = "high") <=> (hIn >= 800 /\ hIn < 900)
        /\ (hOut = "medium") <=> (hIn >= 600 /\ hIn < 800)
        /\ (hOut = "low") <=> (hIn < 600)

\* C2 witness: the score exactly 0.9 has been classified, as critical
C2_Witness == hIn = 900 /\ hOut = "critical"

\* the positions of a list of dicts whose customer_id is c
WithCustomer(list, c) == {k \in 1..Len(list) : list[k]["customer_id"] = c}

\* C3: in the result, every profile at level high or critical has exactly one
\* alert and no profile at level low or medium has any: per customer, there
\* are as many alerts as profiles at high or critical, and every alert is at
\* one of these two levels.
C3_OneAlertPerHighRisk ==
    pc = "returned" =>
        /\ \A j \in 1..Len(fraud_alerts) : fraud_alerts[j]["risk_level"] \in {"high", "critical"}
        /\ \A k \in 1..Len(risk_analyzed_profiles) :
               LET c == risk_analyzed_profiles[k]["customer_id"]
               IN Cardinality(WithCustomer(fraud_alerts, c))
                  = Cardinality({i \in WithCustomer(risk_analyzed_profiles, c) :
                                    risk_analyzed_profiles[i]["risk_level"] \in {"high", "critical"}})

\* C3 witness: a returned batch with a high-risk profile that got its alert
\* and a medium-risk profile that got none
C3_Witness ==
    /\ pc = "returned"
    /\ Len(risk_analyzed_profiles) = 2
    /\ Len(fraud_alerts) = 1
    /\ \E k \in 1..2 : risk_analyzed_profiles[k]["risk_level"] = "medium"
    /\ \E k \in 1..2 : risk_analyzed_profiles[k]["risk_level"] = "high"

\* C4: the call leaves the caller's profile dicts as they were, whether it
\* returns or raises.
C4_CallerProfilesUnchanged == Ended => customer_profiles = called_with

\* the profiles of the previous and of the current call that are the same
\* customer with the same number of orders
SameCustomerAndOrders(p, q) ==
    /\ p["customer_id"] = q["customer_id"]
    /\ Get(p, "total_orders", 0) = Get(q, "total_orders", 0)

\* C5: two calls on profiles with the same customer_id and total_orders give
\* the same transaction_timestamps, whenever they are made.
C5_TimelineFixedByIdAndOrders ==
    \A i \in 1..Len(prev) : \A k \in 1..Len(risk_analyzed_profiles) :
        SameCustomerAndOrders(prev[i], risk_analyzed_profiles[k])
            => prev[i]["transaction_timestamps"] = risk_analyzed_profiles[k]["transaction_timestamps"]

IndicatorTypes(p) ==
    {p["fraud_indicators"][j]["indicator_type"] : j \in 1..Len(p["fraud_indicators"])}

HashIndicators == {"BURST_PATTERN", "IMPOSSIBLE_TRAVEL", "OFF_HOURS_ACTIVITY"}

\* C6: each of the three hash-based indicators fires for a customer in one
\* call exactly if it fires for that customer in any other call, in the same
\* process or in another.
C6_HashIndicatorsFixedById ==
    \A i \in 1..Len(prev) : \A k \in 1..Len(risk_analyzed_profiles) :
        SameCustomerAndOrders(prev[i], risk_analyzed_profiles[k])
            => IndicatorTypes(prev[i]) \cap HashIndicators
               = IndicatorTypes(risk_analyzed_profiles[k]) \cap HashIndicators

\* the profiles of the batch that _simulate_transaction_timestamps is through with
Simulated == IF pc = "simulate" THEN 1..(idx - 1)
             ELSE IF pc \in {"analyze", "returned"} THEN 1..Len(customer_profiles)
             ELSE {}

\* C7: a processed profile has total_orders timestamps (none when
\* total_orders is 0), in ascending order, and first_transaction and
\* last_transaction are the first and the last of them.
C7_TimelineShape ==
    \A k \in Simulated :
        LET p == customer_profiles[k]
            ts == p["transaction_timestamps"]
        IN /\ Len(ts) = Get(p, "total_orders", 0)
           /\ \A j \in 1..(Len(ts) - 1) : IsoLeq(ts[j], ts[j + 1])
           /\ Len(ts) > 0 => /\ p["first_transaction"] = ts[1]
                             /\ p["last_transaction"] = ts[Len(ts)]
           /\ Len(ts) = 0 => ts = <<>>

\* C7 witness: a processed profile with ten orders spread over several days
C7_Witness ==
    \E k \in Simulated :
        /\ Get(customer_profiles[k], "total_orders", 0) = 10
        /\ customer_profiles[k]["first_transaction"][1] < customer_profiles[k]["last_transaction"][1]

\* C8: the six weights are 0.25, 0.20, 0.20, 0.15, 0.10, 0.10 and sum to 1.0,
\* and the composite score is min(1, sum of weight times score) with every
\* dimension under its own weight.
C8_CompositeIsWeightedSum ==
    /\ Get(risk_weights, "velocity_risk", 0) = 25
    /\ Get(risk_weights, "geographic_risk", 0) = 20
    /\ Get(risk_weights, "behavioral_risk", 0) = 20
    /\ Get(risk_weights, "profile_risk", 0) = 15
    /\ Get(risk_weights, "amount_risk", 0) = 10
    /\ Get(risk_weights, "temporal_risk", 0) = 10
    /\ DOMAIN risk_weights = Dimensions
    /\ SumCounts(risk_weights, DOMAIN risk_weights) = 100
    /\ \A k \in 1..Len(risk_analyzed_profiles) :
           LET sc == risk_analyzed_profiles[k]["individual_risk_scores"]
           IN risk_analyzed_profiles[k]["composite_risk_score"]
              = Min(1000, 25 * sc["velocity_risk"] + 20 * sc["geographic_risk"]
                          + 20 * sc["behavioral_risk"] + 15 * sc["profile_risk"]
                          + 10 * sc["amount_risk"] + 10 * sc["temporal_risk"])

\* C8 witness: an analysed profile in which all six dimensions score
C8_Witness ==
    \E k \in 1..Len(risk_analyzed_profiles) :
        \A d \in Dimensions : risk_analyzed_profiles[k]["individual_risk_scores"][d] > 0

IsZero(q) == q.num = 0

\* C9: the engine called with an empty list does not raise, and returns no
\* enriched profiles, no alerts and metrics that are all 0.
C9_EmptyBatchZeroMetrics ==
    (entry = "engine" /\ called_with = <<>>) =>
        /\ pc # "raised"
        /\ pc = "returned" =>
               /\ risk_analyzed_profiles = <<>>
               /\ fraud_alerts = <<>>
               /\ fraud_metrics.total_customers_analyzed = 0
               /\ IsZero(fraud_metrics.average_risk_score)
               /\ fraud_metrics.high_risk_customers = 0
               /\ IsZero(fraud_metrics.fraud_detection_rate)
               /\ \A level \in DOMAIN fraud_metrics.risk_distribution :
                      /\ fraud_metrics.risk_distribution[level].count = 0
                      /\ IsZero(fraud_metrics.risk_distribution[level].percentage)
               /\ DOMAIN fraud_metrics.risk_distribution = {"low", "medium", "high", "critical"}

\* C9 witness: the engine has returned from a call with an empty list
C9_Witness == entry = "engine" /\ called_with = <<>> /\ pc = "returned"

\* C10: the task does not raise when the profile source has no rows.
C10_EmptySourceNotAnError == (entry = "task" /\ called_with = <<>>) => pc # "raised"

\* the positions of a batch whose profile has a customer_id
Identified(batch) == {k \in 1..Len(batch) : "customer_id" \in DOMAIN batch[k]}

\* C11: a call whose batch has a profile without customer_id skips that
\* profile and goes on: it returns, with one enriched record for each of the
\* other profiles and the metrics over them.
C11_MissingIdSkipped ==
    (Ended /\ Identified(called_with) # 1..Len(called_with)) =>
        /\ pc = "returned"
        /\ Len(risk_analyzed_profiles) = Cardinality(Identified(called_with))
        /\ fraud_metrics.total_customers_analyzed = Cardinality(Identified(called_with))

\* the positions of the batch that the loop of line 82 has analysed, the one
\* an analyzer raised on included
Analysed == IF pc = "analyze" THEN 1..(idx - 1)
            ELSE IF pc = "returned" THEN 1..Len(customer_profiles)
            ELSE IF pc = "raised" /\ exc = "AttributeError" THEN 1..idx
            ELSE {}

\* C12: when one analyzer (here the geographic one) fails on a profile, the
\* profile still gets its record, with the scores of the other five
\* analyzers in it and in its composite score.
C12_AnalyzerFailureIsolated ==
    \A k \in Analysed :
        GeographicRaises(customer_profiles[k]) =>
            /\ k <= Len(risk_analyzed_profiles)
            /\ LET p == customer_profiles[k]
                   sc == risk_analyzed_profiles[k]["individual_risk_scores"]
               IN /\ sc["velocity_risk"] = _analyze_velocity_risk(p, hashSeed).score
                  /\ sc["behavioral_risk"] = _analyze_behavioral_risk(p).score
                  /\ sc["profile_risk"] = _analyze_profile_risk(p).score
                  /\ sc["amount_risk"] = _analyze_amount_risk(p).score
                  /\ sc["temporal_risk"] = _analyze_temporal_risk(p, hashSeed).score
                  /\ risk_analyzed_profiles[k]["composite_risk_score"]
                     >= 25 * sc["velocity_risk"] + 20 * sc["behavioral_risk"]
                        + 15 * sc["profile_risk"] + 10 * sc["amount_risk"]
                        + 10 * sc["temporal_risk"]

\* what the engine gives for a profile processed on its own
SequentialResult(profile) ==
    LET p == SimulateProfile(profile, now, npState).profile
    IN EnrichedProfile(p, _perform_fraud_analysis(p, hashSeed))

\* C13: profiles processed by threads whose steps interleave get the timeline
\* and the risk assessment they get when processed one after the other.
C13_InterleavingAsSequential ==
    \A w \in DOMAIN workers :
        workers[w].at = "done" => workers[w].profile = SequentialResult(workers[w].input)

\* C14: the metrics exist only once the call has gone through every profile,
\* and a call that returns gives one enriched record per input profile, the
\* i-th with the customer_id of the i-th input, and counts as many customers
\* as there were inputs.
C14_OneRecordPerInputInOrder ==
    /\ pc # "returned" => fraud_metrics = <<>>
    /\ pc = "returned" =>
           /\ Len(risk_analyzed_profiles) = Len(called_with)
           /\ \A i \in 1..Len(called_with) :
                  risk_analyzed_profiles[i]["customer_id"] = called_with[i]["customer_id"]
           /\ fraud_metrics.total_customers_analyzed = Len(called_with)

\* C14 witness: a returned call on customer 2 followed by customer 1
C14_Witness ==
    /\ pc = "returned"
    /\ Len(called_with) = 2
    /\ called_with[1]["customer_id"] = 2 /\ called_with[2]["customer_id"] = 1
    /\ risk_analyzed_profiles[1]["customer_id"] = 2
    /\ fraud_metrics.total_customers_analyzed = 2

\* C15: an emitted alert recommends IMMEDIATE_INVESTIGATION_REQUIRED at level
\* critical and PRIORITY_REVIEW at level high (the mapping gives
\* ENHANCED_MONITORING for medium and STANDARD_MONITORING for low); its
\* priority is P1_URGENT from 0.9, P2_HIGH from 0.8, P3_MEDIUM from 0.6 and
\* P4_LOW below, so a critical alert is P1_URGENT, a high one P2_HIGH, and no
\* emitted alert is P3_MEDIUM or P4_LOW.
C15_AlertActionAndPriority ==
    pc = "applied" =>
        /\ \A j \in 1..Len(hOut.alerts) :
               LET a == hOut.alerts[j]
               IN /\ a.risk_level \in {"high", "critical"}
                  /\ a.risk_score = hIn
                  /\ a.risk_level = "critical" =>
                         /\ a.recommended_action = "IMMEDIATE_INVESTIGATION_REQUIRED"
                         /\ a.investigation_priority = "P1_URGENT"
                  /\ a.risk_level = "high" =>
                         /\ a.recommended_action = "PRIORITY_REVIEW"
                         /\ a.investigation_priority = "P2_HIGH"
                  /\ a.investigation_priority \notin {"P3_MEDIUM", "P4_LOW"}
        /\ hOut.risk_level = "medium" => hOut.recommended_action = "ENHANCED_MONITORING"
        /\ hOut.risk_level = "low" => hOut.recommended_action = "STANDARD_MONITORING"
        /\ (hOut.investigation_priority = "P1_URGENT") <=> (hIn >= 900)
        /\ (hOut.investigation_priority = "P2_HIGH") <=> (hIn >= 800 /\ hIn < 900)
        /\ (hOut.investigation_priority = "P3_MEDIUM") <=> (hIn >= 600 /\ hIn < 800)
        /\ (hOut.investigation_priority = "P4_LOW") <=> (hIn < 600)

\* C15 witness: the alert of a profile scored exactly 0.9, critical and P1_URGENT
C15_Witness ==
    /\ pc = "applied"
    /\ hIn = 900
    /\ Len(hOut.alerts) = 1
    /\ hOut.alerts[1].risk_level = "critical"
    /\ hOut.alerts[1].investigation_priority = "P1_URGENT"

\* the place of an indicator's dimension in the order the analyzers run in
DimensionRank(indicator_type) ==
    CASE indicator_type \in {"HIGH_VELOCITY", "BURST_PATTERN"} -> 1
      [] indicator_type \in {"INTERNATIONAL_PROFILE", "IMPOSSIBLE_TRAVEL"} -> 2
      [] indicator_type \in {"NEW_CUSTOMER_HIGH_SPENDING", "UNUSUAL_PRODUCT_DIVERSITY"} -> 3
      [] indicator_type \in {"INCOMPLETE_PROFILE", "SUSPICIOUS_EMAIL"} -> 4
      [] indicator_type \in {"HIGH_AVERAGE_ORDER", "ROUND_NUMBER_BIAS"} -> 5
      [] indicator_type = "OFF_HOURS_ACTIVITY" -> 6
      [] OTHER -> 0

\* C16: in every enriched record the indicators stand in the order velocity,
\* geographic, behavioral, profile, amount, temporal, and the
\* primary_indicators of an alert are the types of the first three indicators
\* of its profile (of all of them if there are fewer), in that order.
C16_PrimaryIndicatorsFirstThree ==
    /\ \A k \in 1..Len(risk_analyzed_profiles) :
           LET ind == risk_analyzed_profiles[k]["fraud_indicators"]
           IN \A j \in 1..(Len(ind) - 1) :
                  /\ DimensionRank(ind[j]["indicator_type"]) >= 1
                  /\ DimensionRank(ind[j]["indicator_type"])
                     <= DimensionRank(ind[j + 1]["indicator_type"])
    /\ \A j \in 1..Len(fraud_alerts) :
           \E k \in WithCustomer(risk_analyzed_profiles, fraud_alerts[j]["customer_id"]) :
               LET ind == risk_analyzed_profiles[k]["fraud_indicators"]
                   primary == fraud_alerts[j]["primary_indicators"]
               IN /\ risk_analyzed_profiles[k]["risk_level"] \in {"high", "critical"}
                  /\ Len(primary) = Min(3, Len(ind))
                  /\ \A i \in 1..Len(primary) : primary[i] = ind[i]["indicator_type"]

\* C16 witness: an alert for a profile with more than three indicators,
\* naming the two velocity indicators and the first geographic one
C16_Witness ==
    \E j \in 1..Len(fraud_alerts) :
        /\ fraud_alerts[j]["primary_indicators"]
           = <<"HIGH_VELOCITY", "BURST_PATTERN", "INTERNATIONAL_PROFILE">>
        /\ \E k \in WithCustomer(risk_analyzed_profiles, fraud_alerts[j]["customer_id"]) :
               Len(risk_analyzed_profiles[k]["fraud_indicators"]) > 3

\* the number of enriched records at a level
RecordsAt(level) ==
    Cardinality({k \in 1..Len(risk_analyzed_profiles) :
                    risk_analyzed_profiles[k]["risk_level"] = level})

\* the quotient q is count / total * 100, or 0 when there is nothing to divide by
IsPercentageOf(q, count, total) ==
    /\ q.den # 0
    /\ IF total > 0 THEN q.num * total = count * 100 * q.den ELSE q.num = 0

\* C17: in the metrics of a returned call the counts per level are the numbers
\* of records at the level and sum to the total, each percentage is count /
\* total * 100, high_risk_customers is the high plus the critical count and
\* fraud_detection_rate is high_risk_customers / total * 100; with no
\* profiles every one of them is 0 and nothing is divided by zero.
C17_MetricsConsistent ==
    pc = "returned" =>
        LET total == fraud_metrics.total_customers_analyzed
            dist == fraud_metrics.risk_distribution
        IN /\ DOMAIN dist = {"low", "medium", "high", "critical"}
           /\ \A level \in DOMAIN dist :
                  /\ dist[level].count = RecordsAt(level)
                  /\ IsPercentageOf(dist[level].percentage, dist[level].count, total)
           /\ dist["low"].count + dist["medium"].count + dist["high"].count
              + dist["critical"].count = total
           /\ fraud_metrics.high_risk_customers = dist["high"].count + dist["critical"].count
           /\ IsPercentageOf(fraud_metrics.fraud_detection_rate,
                             fraud_metrics.high_risk_customers, total)

\* C17 witness: the metrics of two profiles of which one is at level high
\* (50 percent detected); C9_Witness is the call with no profiles
C17_Witness ==
    /\ pc = "returned"
    /\ fraud_metrics.total_customers_analyzed = 2
    /\ fraud_metrics.high_risk_customers = 1
    /\ fraud_metrics.fraud_detection_rate.num = 50 * fraud_metrics.fraud_detection_rate.den

MlFeatureKeys ==
    {"age", "profile_completeness", "total_spent", "total_orders", "avg_order_value",
     "product_diversity_score", "customer_activity_score", "risk_velocity_risk",
     "risk_geographic_risk", "risk_behavioral_risk", "risk_profile_risk", "risk_amount_risk",
     "risk_temporal_risk", "max_daily_transactions", "avg_daily_transactions",
     "is_international", "is_premium_customer", "has_risk_indicators"}

NumericAttributes ==
    {"age", "total_spent", "total_orders", "avg_order_value", "profile_completeness",
     "product_diversity_score"}

\* C18: _extract_ml_features gives the same keys for every profile, whichever
\* optional attributes the profile lacks; a numeric attribute gives its value
\* when present and 0 when absent, an absent transaction_velocity gives 0
\* transactions a day, and an absent customer_segment is not premium.
C18_FeaturesFixedKeys ==
    pc = "applied" =>
        /\ DOMAIN hOut = MlFeatureKeys
        /\ \A f \in NumericAttributes : hOut[f] = IF f \in DOMAIN hIn THEN hIn[f] ELSE 0
        /\ "transaction_velocity" \notin DOMAIN hIn =>
               /\ hOut["max_daily_transactions"] = 0
               /\ hOut["avg_daily_transactions"].num = 0
        /\ "customer_segment" \notin DOMAIN hIn => hOut["is_premium_customer"] = 0
        /\ hOut["is_international"] \in {0, 1}

\* C18 witness: the features of a profile that has none of the optional attributes
C18_Witness ==
    /\ pc = "applied"
    /\ DOMAIN hIn \cap OptionalAttributes = {}
    /\ hOut["age"] = 0
    /\ hOut["max_daily_transactions"] = 0

\* the call was made with a profile lacking a numeric field, followed by the
\* same profile with the field 0
AbsentThenZero ==
    /\ Len(called_with) = 2
    /\ \E f \in NumericFields :
           /\ f \notin DOMAIN called_with[1]
           /\ called_with[2] = Put(called_with[1], f, 0)

\* C19: a profile that lacks one of total_orders, total_spent,
\* avg_order_value, profile_completeness, product_diversity_score and age
\* gets the six scores, the indicators and the ml_features of the same
\* profile with that field 0.
C19_AbsentNumericAsZero ==
    (pc = "returned" /\ AbsentThenZero) =>
        /\ risk_analyzed_profiles[1]["individual_risk_scores"]
           = risk_analyzed_profiles[2]["individual_risk_scores"]
        /\ risk_analyzed_profiles[1]["fraud_indicators"]
           = risk_analyzed_profiles[2]["fraud_indicators"]
        /\ risk_analyzed_profiles[1]["ml_features"] = risk_analyzed_profiles[2]["ml_features"]

\* the call was made with two profiles that differ in avg_order_value at most
DifferInAverageOrderValue ==
    /\ Len(called_with) = 2
    /\ "avg_order_value" \in DOMAIN called_with[1]
    /\ "avg_order_value" \in DOMAIN called_with[2]
    /\ Without(called_with[1], {"avg_order_value"}) = Without(called_with[2], {"avg_order_value"})

\* C20: of two profiles that differ only in avg_order_value, the one with the
\* larger average order value has an amount score that is not smaller.
C20_AmountMonotone ==
    (pc = "returned" /\ DifferInAverageOrderValue
     /\ called_with[1]["avg_order_value"] <= called_with[2]["avg_order_value"]) =>
        risk_analyzed_profiles[1]["individual_risk_scores"]["amount_risk"]
        <= risk_analyzed_profiles[2]["individual_risk_scores"]["amount_risk"]

\* C20 witness: average order values 1000 and 1001, on either side of the
\* limit, with a larger amount score for the second
C20_Witness ==
    /\ pc = "returned" /\ DifferInAverageOrderValue
    /\ called_with[1]["avg_order_value"] = 1000
    /\ called_with[2]["avg_order_value"] = 1001
    /\ risk_analyzed_profiles[1]["individual_risk_scores"]["amount_risk"]
       < risk_analyzed_profiles[2]["individual_risk_scores"]["amount_risk"]

\* C21: the example profile (customer 42) gets behavioral_risk >= 0.5 with
\* NEW_CUSTOMER_HIGH_SPENDING, profile_risk >= 0.4 with INCOMPLETE_PROFILE and
\* geographic_risk >= 0.3 with INTERNATIONAL_PROFILE, and the same
\* composite_risk_score and risk_level in every run.
C21_ExampleProfile ==
    /\ \A k \in WithCustomer(risk_analyzed_profiles, 42) :
           LET p == risk_analyzed_profiles[k]
           IN /\ p["individual_risk_scores"]["behavioral_risk"] >= 5
              /\ "NEW_CUSTOMER_HIGH_SPENDING" \in IndicatorTypes(p)
              /\ p["individual_risk_scores"]["profile_risk"] >= 4
              /\ "INCOMPLETE_PROFILE" \in IndicatorTypes(p)
              /\ p["individual_risk_scores"]["geographic_risk"] >= 3
              /\ "INTERNATIONAL_PROFILE" \in IndicatorTypes(p)
    /\ \A i \in WithCustomer(prev, 42) : \A k \in WithCustomer(risk_analyzed_profiles, 42) :
           /\ prev[i]["composite_risk_score"] = risk_analyzed_profiles[k]["composite_risk_score"]
           /\ prev[i]["risk_level"] = risk_analyzed_profiles[k]["risk_level"]

\* C22: extract_sales_data transforms the carts and users whether PII masking
\* is enabled or not: with both API calls answered it does not fail, and it
\* ends with sales_records, skipped_records and the extraction summary.
C22_TransformRegardlessOfMasking ==
    extraction.at \in {"summary", "returned", "raised"} =>
        /\ extraction.at # "raised"
        /\ {"sales_records", "skipped_records"} \subseteq DOMAIN extraction.locals
        /\ extraction.at = "returned" => extraction.result["status"] = "success"

\* the record p has exactly one indicator of the type, with this severity and
\* confidence, if present is TRUE, and none of the type otherwise
EmitsExactlyWhen(p, indicator_type, severity, confidence, present) ==
    LET ind == p["fraud_indicators"]
        hits == {j \in 1..Len(ind) : ind[j]["indicator_type"] = indicator_type}
    IN /\ Cardinality(hits) = (IF present THEN 1 ELSE 0)
       /\ \A j \in hits : ind[j]["severity"] = severity /\ ind[j]["confidence"] = confidence

\* C23: in every enriched record velocity_risk is min(1, 0.6 if max_daily >= 5
\* plus 0.4 if total_orders >= 10 and the hash of the customer_id is
\* divisible by 20), HIGH_VELOCITY (high, 0.8) is there exactly in the first
\* case and BURST_PATTERN (medium, 0.7) exactly in the second.
C23_VelocityRule ==
    \A k \in 1..Len(risk_analyzed_profiles) :
        LET p == risk_analyzed_profiles[k]
            first == p["transaction_velocity"].max_daily >= 5
            second == Get(p, "total_orders", 0) >= 10 /\ CustomerHash(p, hashSeed) % 20 = 0
        IN /\ p["individual_risk_scores"]["velocity_risk"]
              = Min(10, (IF first THEN 6 ELSE 0) + (IF second THEN 4 ELSE 0))
           /\ EmitsExactlyWhen(p, "HIGH_VELOCITY", "high", 80, first)
           /\ EmitsExactlyWhen(p, "BURST_PATTERN", "medium", 70, second)

\* C23 witness: a record with ten orders and five or more on one day in
\* which the hash keeps BURST_PATTERN away: HIGH_VELOCITY alone, score 0.6
C23_Witness ==
    \E k \in 1..Len(risk_analyzed_profiles) :
        LET p == risk_analyzed_profiles[k]
        IN /\ Get(p, "total_orders", 0) >= 10
           /\ p["transaction_velocity"].max_daily >= 5
           /\ CustomerHash(p, hashSeed) % 20 # 0
           /\ p["individual_risk_scores"]["velocity_risk"] = 6

\* C24: in every enriched record geographic_risk is min(1, 0.3 if the
\* lower-cased country is not united states, canada or united kingdom, plus
\* 0.7 if the hash of the customer_id mod 25 is 0), INTERNATIONAL_PROFILE
\* (low, 0.6) is there exactly in the first case, a profile without country
\* included, and IMPOSSIBLE_TRAVEL (high, 0.9) exactly in the second.
C24_GeographicRule ==
    \A k \in 1..Len(risk_analyzed_profiles) :
        LET p == risk_analyzed_profiles[k]
            first == \/ "country" \notin DOMAIN p
                     \/ Lower(p["country"]) \notin {S_united_states, S_canada, S_united_kingdom}
            second == CustomerHash(p, hashSeed) % 25 = 0
        IN /\ p["individual_risk_scores"]["geographic_risk"]
              = Min(10, (IF first THEN 3 ELSE 0) + (IF second THEN 7 ELSE 0))
           /\ EmitsExactlyWhen(p, "INTERNATIONAL_PROFILE", "low", 60, first)
           /\ EmitsExactlyWhen(p, "IMPOSSIBLE_TRAVEL", "high", 90, second)

\* C24 witness: a record without country that has INTERNATIONAL_PROFILE and,
\* its hash not being a multiple of 25, the score 0.3
C24_Witness ==
    \E k \in 1..Len(risk_analyzed_profiles) :
        LET p == risk_analyzed_profiles[k]
        IN /\ "country" \notin DOMAIN p
           /\ "INTERNATIONAL_PROFILE" \in IndicatorTypes(p)
           /\ p["individual_risk_scores"]["geographic_risk"] = 3

\* the number of timestamps of an isoformat timeline that fall on a date
OnDate(ts, d) == Cardinality({j \in 1..Len(ts) : ts[j][1] = d})

\* C25: max_daily is the largest number of timestamps on one calendar date
\* and avg_daily the mean of the per-date numbers, both 0 for an empty
\* timeline; for a non-empty one the per-date numbers sum to its length and
\* 1 <= avg_daily <= max_daily <= total_orders, so that HIGH_VELOCITY needs
\* total_orders >= 5.
C25_VelocityMetrics ==
    \A k \in 1..Len(risk_analyzed_profiles) :
        LET p == risk_analyzed_profiles[k]
            ts == p["transaction_timestamps"]
            v == p["transaction_velocity"]
            dates == {ts[j][1] : j \in 1..Len(ts)}
        IN /\ v.avg_daily.den > 0
           /\ ts = <<>> => v.max_daily = 0 /\ v.avg_daily.num = 0
           /\ ts # <<>> =>
                  /\ \E d \in dates : v.max_daily = OnDate(ts, d)
                  /\ \A d \in dates : OnDate(ts, d) <= v.max_daily
                  /\ v.avg_daily.num * Cardinality(dates) = Len(ts) * v.avg_daily.den
                  /\ v.avg_daily.num >= v.avg_daily.den
                  /\ v.avg_daily.num <= v.max_daily * v.avg_daily.den
                  /\ v.max_daily <= Get(p, "total_orders", 0)
           /\ "HIGH_VELOCITY" \in IndicatorTypes(p) => Get(p, "total_orders", 0) >= 5

\* C25 witness: a timeline over several dates with five or more timestamps
\* on one of them, so that the mean is below the maximum
C25_Witness ==
    \E k \in 1..Len(risk_analyzed_profiles) :
        LET v == risk_analyzed_profiles[k]["transaction_velocity"]
        IN /\ v.max_daily >= 5
           /\ v.avg_daily.num < v.max_daily * v.avg_daily.den
           /\ v.avg_daily.num > v.avg_daily.den

\* C26: in every enriched record the feature has_risk_indicators is 1.0
\* exactly when the record's fraud_indicators are not empty.
C26_HasRiskIndicatorsFeature ==
    \A k \in 1..Len(risk_analyzed_profiles) :
        LET p == risk_analyzed_profiles[k]
        IN (p["ml_features"]["has_risk_indicators"] = 1) <=> (p["fraud_indicators"] # <<>>)

\* C27: in every enriched record the feature is_international is 1.0 exactly
\* when INTERNATIONAL_PROFILE is among the record's fraud_indicators.
C27_IsInternationalAgrees ==
    \A k \in 1..Len(risk_analyzed_profiles) :
        LET p == risk_analyzed_profiles[k]
        IN (p["ml_features"]["is_international"] = 1)
           <=> ("INTERNATIONAL_PROFILE" \in IndicatorTypes(p))

\* the largest score each analyzer can give, in tenths
DimensionMaxima ==
    [velocity_risk |-> 10, geographic_risk |-> 10, behavioral_risk |-> 8,
     profile_risk |-> 10, amount_risk |-> 6, temporal_risk |-> 3]

IsHighRisk(p) == p["risk_level"] \in {"high", "critical"}

\* the customer_ids of a list of dicts, in order
CustomerIds(list) == [k \in 1..Len(list) |-> list[k]["customer_id"]]

DimensionAt ==
    <<"velocity_risk", "geographic_risk", "behavioral_risk",
      "profile_risk", "amount_risk", "temporal_risk">>

\* what the rule of an indicator adds to the score of its dimension, in tenths
Contribution(indicator_type) ==
    CASE indicator_type = "HIGH_VELOCITY" -> 6
      [] indicator_type = "BURST_PATTERN" -> 4
      [] indicator_type = "INTERNATIONAL_PROFILE" -> 3
      [] indicator_type = "IMPOSSIBLE_TRAVEL" -> 7
      [] indicator_type = "NEW_CUSTOMER_HIGH_SPENDING" -> 5
      [] indicator_type = "UNUSUAL_PRODUCT_DIVERSITY" -> 3
      [] indicator_type = "INCOMPLETE_PROFILE" -> 4
      [] indicator_type = "SUSPICIOUS_EMAIL" -> 6
      [] indicator_type = "HIGH_AVERAGE_ORDER" -> 4
      [] indicator_type = "ROUND_NUMBER_BIAS" -> 2
      [] indicator_type = "OFF_HOURS_ACTIVITY" -> 3
      [] OTHER -> 0

\* the contributions of the indicators of the r-th dimension, in order
ContributionsOf(indicators, r) ==
    LET InDimension(i) == DimensionRank(i.indicator_type) = r
        own == SelectSeq(indicators, InDimension)
    IN [k \in 1..Len(own) |-> Contribution(own[k].indicator_type)]

\* C30: in every enriched record the score of each dimension is min(1, sum of
\* the contributions of the indicators of that dimension) and is positive
\* exactly when the dimension has an indicator; the composite score is positive
\* exactly when the record has an indicator; and a record classified high or
\* critical has at least three indicators.
C30_ScoresBackedByIndicators ==
    \A k \in 1..Len(risk_analyzed_profiles) :
        LET p == risk_analyzed_profiles[k]
            indicators == p["fraud_indicators"]
        IN /\ \A r \in 1..6 :
                  LET given == ContributionsOf(indicators, r)
                      score == p["individual_risk_scores"][DimensionAt[r]]
                  IN /\ score = Min(10, SumSeq(given))
                     /\ (score > 0) <=> (given # <<>>)
           /\ \A i \in 1..Len(indicators) : DimensionRank(indicators[i].indicator_type) \in 1..6
           /\ (p["composite_risk_score"] > 0) <=> (indicators # <<>>)
           /\ p["risk_level"] \in {"high", "critical"} => Len(indicators) >= 3

\* C30 witness: a record classified high with at least three indicators, one
\* dimension at a positive score and another at 0 without an indicator
C30_Witness ==
    \E k \in 1..Len(risk_analyzed_profiles) :
        LET p == risk_analyzed_profiles[k]
        IN /\ p["risk_level"] = "high"
           /\ Len(p["fraud_indicators"]) >= 3
           /\ \E r \in 1..6 : /\ p["individual_risk_scores"][DimensionAt[r]] = 0
                              /\ ContributionsOf(p["fraud_indicators"], r) = <<>>
           /\ \E r \in 1..6 : p["individual_risk_scores"][DimensionAt[r]] > 0

====
